---- MODULE Spec2Model ----
(***************************************************************************)
(* Model of package annot (meyermarcel/annot): Write/String render a set   *)
(* of annotations (Col, optional ColEnd, Lines) as a header row of arrows  *)
(* and ranges followed by body rows of pipes, connectors and label lines.  *)
(*                                                                         *)
(* Annotations are caller-owned objects that Write mutates through         *)
(* pointers, so the model keeps a heap of annotation records addressed by  *)
(* object id, and the slice `annots` of Write as a sequence of ids.        *)
(***************************************************************************)
EXTENDS Integers, Sequences, FiniteSets, TLC

\* ------------------------------------------------------------------ bounds

\* Largest number of annotation objects the caller builds.
MaxAnnots == 3
\* Largest Col of an annotation in the layout inputs.
MaxCol == 6
\* Largest number of label lines of one annotation.
MaxLines == 3
\* Largest number of label lines over all annotations of one input.
MaxTotalLines == 4
\* Largest number of characters of one label line.
MaxChars == 1
\* Largest width of a range (ColEnd - Col) in the valid inputs.
MaxSpan == 2
\* Largest number of label lines of a valid input with ranges.
MaxRangeLines == 2
\* Largest Col of the inputs that need not be valid.
MaxValCol == 2
\* Largest number of label lines of an input that need not be valid.
MaxValLines == 2
\* Largest Col of an input that is rendered more than once.
MaxReuseCol == 3
\* Largest number of label lines of an input that is rendered more than once.
MaxReuseLines == 2
\* Largest number of Write calls on the same annotation objects.
MaxCalls == 2
\* Largest Col of the inputs with tall annotations.
MaxTallCol == 2
\* Largest number of label lines of one tall annotation.
MaxTallLines == 3
\* Largest number of label lines over all annotations of a tall input.
MaxTallTotal == 5
\* Cap on the candidate rows setRow tries for one annotation.
RowCap == 12

\* ------------------------------------------------------------- basic helpers

Max(a, b) == IF a >= b THEN a ELSE b

Range(s) == {s[i] : i \in 1..Len(s)}

RECURSIVE SeqsUpTo(_, _)
\* All sequences over S of length at most n.
SeqsUpTo(S, n) ==
  IF n = 0 THEN {<<>>}
  ELSE LET shorter == SeqsUpTo(S, n - 1)
       IN  shorter \cup {Append(s, x) : s \in {t \in shorter : Len(t) = n - 1}, x \in S}

\* strings.Repeat(glyph, n) for n >= 0 (a negative count panics; callers check).
Repeat(glyph, n) == [i \in 1..n |-> glyph]

\* ---------------------------------------------------------------- strings

\* A string is a sequence of characters; "W" stands for the characters that
\* take two cells when displayed (CJK, emoji), "x" for those that take one.
Chars == {"x", "W"}

CharWidth(c) == IF c = "W" THEN 2 ELSE 1

RECURSIVE StringWidth(_)
\* uniseg.StringWidth: the number of cells the string takes when displayed.
StringWidth(s) == IF s = <<>> THEN 0 ELSE CharWidth(Head(s)) + StringWidth(Tail(s))

\* ------------------------------------------------------------- annotations

\* A freshly built Annot: the caller sets Col, ColEnd and Lines, the
\* unexported fields have their zero values.
NewAnnot(col, colEnd, ls) ==
  [Col |-> col, ColEnd |-> colEnd, Lines |-> ls,
   pipeColIdx |-> 0, row |-> 0, lines |-> <<>>, pipeLeadingSpaces |-> <<>>]

\* type line
NewLine(length, leadingSpaces) == [length |-> length, leadingSpaces |-> leadingSpaces]

\* space that asks for two free cells left of a second line as well.
space_lineTwoNarrow(s) ==
  CASE s \in {"above", "lineOne", "lineTwo", "linesAfterSecond"} -> 2
    [] s = "trailingSpaceLines" -> 1
    [] OTHER -> -1

\* section.space(): the free cells a section needs to its left.
space(s) ==
  CASE s \in {"above", "lineOne"} -> 2
    [] s = "lineTwo" -> 4
    [] s = "linesAfterSecond" -> 2
    [] s = "trailingSpaceLines" -> 1
    [] OTHER -> -1

\* colPosShift without the indentation of the lines after the first.
colPosShift_noIndent(s) ==
  CASE s \in {"above", "lineOne", "lineTwo", "linesAfterSecond", "trailingSpaceLines"} -> 0
    [] OTHER -> -1

\* section.colPosShift(): where the section's content starts, relative to the pipe.
colPosShift(s) ==
  CASE s \in {"above", "lineOne"} -> 0
    [] s \in {"lineTwo", "linesAfterSecond", "trailingSpaceLines"} -> 3
    [] OTHER -> -1

\* ------------------------------------------------- Write: model and validate

\* What a call returns: nil, one of the two errors of error.go, the writer's
\* error, or a panic; Running while the call has not returned.
NoError == [kind |-> "nil"]
Running == [kind |-> "running"]
Panic == [kind |-> "panic"]
SinkError == [kind |-> "sinkError"]

\* slices.CompactFunc(annots, a1.Col == a2.Col): of every run of consecutive
\* elements with the same Col only the first is kept.
RECURSIVE CompactFunc(_, _)
CompactFunc(h, s) ==
  IF Len(s) <= 1 THEN s
  ELSE LET front == CompactFunc(h, SubSeq(s, 1, Len(s) - 1))
           last  == s[Len(s)]
       IN  IF h[s[Len(s) - 1]].Col = h[last].Col THEN front ELSE Append(front, last)

\* The comparison function handed to slices.SortFunc.
cmpCol(h, a, b) == h[a].Col - h[b].Col

RECURSIVE insertLeft(_, _, _)
\* Inner loop of the insertion sort: s[j] moves left while it compares less
\* than its predecessor.
insertLeft(h, s, j) ==
  IF j > 1 /\ cmpCol(h, s[j], s[j - 1]) < 0
  THEN insertLeft(h, [s EXCEPT ![j] = s[j - 1], ![j - 1] = s[j]], j - 1)
  ELSE s

RECURSIVE insertionSort(_, _, _)
insertionSort(h, s, i) ==
  IF i > Len(s) THEN s ELSE insertionSort(h, insertLeft(h, s, i), i + 1)

\* SortFunc that leaves the slice as the caller passed it.
SortFunc_unsorted(h, s) == s

\* slices.SortFunc(annots, a.Col - b.Col). For slices of at most 12 elements
\* the library runs an insertion sort, which the model's bounds stay within.
SortFunc(h, s) == insertionSort(h, s, 2)

\* error.go: newColExceedsColEndError
newColExceedsColEndError(annotPos, col, colEnd) ==
  [kind |-> "ColExceedsColEndError", annotPos |-> annotPos, col |-> col, colEnd |-> colEnd]

\* error.go: newOverlapError
newOverlapError(colEnd, firstAnnotPos, secondAnnotCol) ==
  [kind |-> "OverlapError", colEnd |-> colEnd, firstAnnotPos |-> firstAnnotPos,
   secondAnnotCol |-> secondAnnotCol]

\* (a *Annot) createLines: the internal lines parallel to Lines; an annotation
\* without Lines gets one line of length 0.
createLines(h, id) ==
  LET a == h[id]
      ls == IF Len(a.Lines) = 0
            THEN <<NewLine(0, a.pipeColIdx)>>
            ELSE [i \in 1..Len(a.Lines) |->
                    NewLine(StringWidth(a.Lines[i]),
                            IF i > 1 THEN a.pipeColIdx + 3 ELSE a.pipeColIdx)]
  IN  [h EXCEPT ![id].lines = ls]

RECURSIVE validate_equalAllowed(_, _, _)
\* validate that takes a range with Col = ColEnd for valid.
validate_equalAllowed(h, s, aIdx) ==
  IF aIdx > Len(s) THEN [h |-> h, err |-> NoError]
  ELSE
    LET id == s[aIdx]
        a  == h[id]
    IN  IF a.ColEnd # 0 /\ a.Col > a.ColEnd
        THEN [h |-> h, err |-> newColExceedsColEndError(aIdx, a.Col, a.ColEnd)]
        ELSE
          LET h1 == [h EXCEPT ![id].pipeColIdx =
                        IF a.ColEnd # 0 THEN (a.Col + a.ColEnd) \div 2 ELSE a.Col]
          IN  IF aIdx > 1 /\ h1[s[aIdx - 1]].ColEnd # 0 /\ h1[s[aIdx - 1]].ColEnd >= a.Col
              THEN [h |-> h1,
                    err |-> newOverlapError(h1[s[aIdx - 1]].ColEnd, aIdx - 1, a.Col)]
              ELSE validate_equalAllowed(createLines(h1, id), s, aIdx + 1)

RECURSIVE validate_touchAllowed(_, _, _)
\* validate that takes a range ending on the next annotation's column for valid.
validate_touchAllowed(h, s, aIdx) ==
  IF aIdx > Len(s) THEN [h |-> h, err |-> NoError]
  ELSE
    LET id == s[aIdx]
        a  == h[id]
    IN  IF a.ColEnd # 0 /\ a.Col >= a.ColEnd
        THEN [h |-> h, err |-> newColExceedsColEndError(aIdx, a.Col, a.ColEnd)]
        ELSE
          LET h1 == [h EXCEPT ![id].pipeColIdx =
                        IF a.ColEnd # 0 THEN (a.Col + a.ColEnd) \div 2 ELSE a.Col]
          IN  IF aIdx > 1 /\ h1[s[aIdx - 1]].ColEnd # 0 /\ h1[s[aIdx - 1]].ColEnd > a.Col
              THEN [h |-> h1,
                    err |-> newOverlapError(h1[s[aIdx - 1]].ColEnd, aIdx - 1, a.Col)]
              ELSE validate_touchAllowed(createLines(h1, id), s, aIdx + 1)

RECURSIVE validate_overlapFirst(_, _, _)
\* validate that checks the overlap with the annotation before first and the
\* shape of the range second.
validate_overlapFirst(h, s, aIdx) ==
  IF aIdx > Len(s) THEN [h |-> h, err |-> NoError]
  ELSE
    LET id == s[aIdx]
        a  == h[id]
    IN  IF aIdx > 1 /\ h[s[aIdx - 1]].ColEnd # 0 /\ h[s[aIdx - 1]].ColEnd >= a.Col
        THEN [h |-> h, err |-> newOverlapError(h[s[aIdx - 1]].ColEnd, aIdx - 1, a.Col)]
        ELSE IF a.ColEnd # 0 /\ a.Col >= a.ColEnd
        THEN [h |-> h, err |-> newColExceedsColEndError(aIdx, a.Col, a.ColEnd)]
        ELSE
          LET h1 == [h EXCEPT ![id].pipeColIdx =
                        IF a.ColEnd # 0 THEN (a.Col + a.ColEnd) \div 2 ELSE a.Col]
          IN  validate_overlapFirst(createLines(h1, id), s, aIdx + 1)

RECURSIVE validate(_, _, _)
\* The validation loop of Write, from position aIdx (1-based) on: the range
\* shape is checked first, then the overlap with the annotation before, then
\* the lines are created. Returns the heap as left behind and the error.
validate(h, s, aIdx) ==
  IF aIdx > Len(s) THEN [h |-> h, err |-> NoError]
  ELSE
    LET id == s[aIdx]
        a  == h[id]
    IN  IF a.ColEnd # 0 /\ a.Col >= a.ColEnd
        THEN [h |-> h, err |-> newColExceedsColEndError(aIdx, a.Col, a.ColEnd)]
        ELSE
          LET h1 == [h EXCEPT ![id].pipeColIdx =
                        IF a.ColEnd # 0 THEN (a.Col + a.ColEnd) \div 2 ELSE a.Col]
          IN  IF aIdx > 1 /\ h1[s[aIdx - 1]].ColEnd # 0 /\ h1[s[aIdx - 1]].ColEnd >= a.Col
              THEN [h |-> h1,
                    err |-> newOverlapError(h1[s[aIdx - 1]].ColEnd, aIdx - 1, a.Col)]
              ELSE validate(createLines(h1, id), s, aIdx + 1)

\* --------------------------------------------------- Write: row placement

RECURSIVE closestAnnot_lineTwoAnyLength(_, _, _, _)
\* closestAnnot that takes the row after the first line for the second line,
\* whether or not the annotation has a second line.
closestAnnot_lineTwoAnyLength(h, row, rightAnnots, trailingVerticalSpaceLinesCount) ==
  IF rightAnnots = <<>> THEN [a |-> 0, s |-> "noAnnot"]
  ELSE
    LET id == Head(rightAnnots)
        a  == h[id]
        n  == Len(a.lines)
    IN  IF row < a.row THEN [a |-> id, s |-> "above"]
        ELSE IF a.row = row THEN [a |-> id, s |-> "lineOne"]
        ELSE IF a.row + 1 = row THEN [a |-> id, s |-> "lineTwo"]
        ELSE IF 2 <= row /\ row < a.row + n THEN [a |-> id, s |-> "linesAfterSecond"]
        ELSE IF a.row + n <= row /\ row < a.row + n + trailingVerticalSpaceLinesCount
             THEN [a |-> id, s |-> "trailingSpaceLines"]
        ELSE closestAnnot_lineTwoAnyLength(h, row, Tail(rightAnnots),
                                           trailingVerticalSpaceLinesCount)

RECURSIVE closestAnnot(_, _, _, _)
\* closestAnnot: the first right annotation, in the order of the slice, that
\* has a section on the row, and that section.
closestAnnot(h, row, rightAnnots, trailingVerticalSpaceLinesCount) ==
  IF rightAnnots = <<>> THEN [a |-> 0, s |-> "noAnnot"]
  ELSE
    LET id == Head(rightAnnots)
        a  == h[id]
        n  == Len(a.lines)
    IN  IF row < a.row THEN [a |-> id, s |-> "above"]
        ELSE IF a.row = row THEN [a |-> id, s |-> "lineOne"]
        ELSE IF a.row + 1 = row /\ row < a.row + n THEN [a |-> id, s |-> "lineTwo"]
        ELSE IF 2 <= row /\ row < a.row + n THEN [a |-> id, s |-> "linesAfterSecond"]
        ELSE IF a.row + n <= row /\ row < a.row + n + trailingVerticalSpaceLinesCount
             THEN [a |-> id, s |-> "trailingSpaceLines"]
        ELSE closestAnnot(h, row, Tail(rightAnnots), trailingVerticalSpaceLinesCount)

\* a.pipeLeadingSpaces[idx] = v, with Go's 0-based index and bounds check.
setPipeLeadingSpace(h, id, idx, v) ==
  IF 0 <= idx /\ idx < Len(h[id].pipeLeadingSpaces)
  THEN [h |-> [h EXCEPT ![id].pipeLeadingSpaces[idx + 1] = v], panic |-> FALSE]
  ELSE [h |-> h, panic |-> TRUE]

\* a.lines[idx].leadingSpaces = v, with Go's 0-based index and bounds check.
setLineLeadingSpace(h, id, idx, v) ==
  IF 0 <= idx /\ idx < Len(h[id].lines)
  THEN [h |-> [h EXCEPT ![id].lines[idx + 1].leadingSpaces = v], panic |-> FALSE]
  ELSE [h |-> h, panic |-> TRUE]

\* setSpace: the space left of the closest right annotation on the row above
\* the candidate row, where a draws its pipe.
setSpace(h, rowBefore, a, rightAnnots) ==
  LET c == closestAnnot(h, rowBefore, rightAnnots, 0)
      v == h[c.a].pipeColIdx + colPosShift(c.s) - h[a].pipeColIdx - 1
  IN  IF c.s = "above" THEN setPipeLeadingSpace(h, c.a, rowBefore, v)
      ELSE IF c.s \in {"lineOne", "lineTwo", "linesAfterSecond"}
           THEN setLineLeadingSpace(h, c.a, rowBefore - h[c.a].row, v)
      ELSE [h |-> h, panic |-> FALSE]

\* checkLineAndSetSpace that also turns down a line that leaves exactly the
\* space its section needs.
checkLineAndSetSpace_strict(h, row, aLineIdx, a, rightAnnots) ==
  LET rowPlusLineIdx == row + aLineIdx
      c == closestAnnot(h, rowPlusLineIdx, rightAnnots, 1)
      lineLength == 3 + h[a].lines[aLineIdx + 1].length
      remainingSpaces == h[c.a].pipeColIdx + colPosShift(c.s) - h[a].pipeColIdx - lineLength
  IN  IF c.s = "noAnnot" THEN [h |-> h, panic |-> FALSE, fits |-> TRUE]
      ELSE IF remainingSpaces - space(c.s) <= 0
      THEN [h |-> [h EXCEPT ![a].row = @ + 1,
                            ![a].pipeLeadingSpaces = Append(@, h[a].pipeColIdx)],
            panic |-> FALSE, fits |-> FALSE]
      ELSE
        LET w == CASE c.s = "above" ->
                        setPipeLeadingSpace(h, c.a, rowPlusLineIdx, remainingSpaces)
                   [] c.s \in {"lineOne", "lineTwo", "linesAfterSecond"} ->
                        setLineLeadingSpace(h, c.a, rowPlusLineIdx - h[c.a].row, remainingSpaces)
                   [] c.s = "trailingSpaceLines" ->
                        LET c2 == closestAnnot(h, rowPlusLineIdx, rightAnnots, 0)
                            leadingSpaces2 == h[c2.a].pipeColIdx + colPosShift(c2.s)
                                              - h[a].pipeColIdx - lineLength
                        IN  IF c2.s = "noAnnot" THEN [h |-> h, panic |-> FALSE]
                            ELSE IF c2.s = "above"
                            THEN setPipeLeadingSpace(h, c2.a, rowPlusLineIdx, leadingSpaces2)
                            ELSE setLineLeadingSpace(h, c2.a, rowPlusLineIdx - h[c2.a].row,
                                                     leadingSpaces2)
                   [] OTHER -> [h |-> h, panic |-> TRUE]
        IN  [h |-> w.h, panic |-> w.panic, fits |-> ~w.panic]

\* checkLineAndSetSpace that asks for two free cells left of every section
\* but lineTwo, the trailing space line included.
checkLineAndSetSpace_twoFree(h, row, aLineIdx, a, rightAnnots) ==
  LET rowPlusLineIdx == row + aLineIdx
      c == closestAnnot(h, rowPlusLineIdx, rightAnnots, 1)
      lineLength == 3 + h[a].lines[aLineIdx + 1].length
      remainingSpaces == h[c.a].pipeColIdx + colPosShift(c.s) - h[a].pipeColIdx - lineLength
  IN  IF c.s = "noAnnot" THEN [h |-> h, panic |-> FALSE, fits |-> TRUE]
      ELSE IF remainingSpaces - (IF c.s = "lineTwo" THEN 4 ELSE 2) < 0
      THEN [h |-> [h EXCEPT ![a].row = @ + 1,
                            ![a].pipeLeadingSpaces = Append(@, h[a].pipeColIdx)],
            panic |-> FALSE, fits |-> FALSE]
      ELSE
        LET w == CASE c.s = "above" ->
                        setPipeLeadingSpace(h, c.a, rowPlusLineIdx, remainingSpaces)
                   [] c.s \in {"lineOne", "lineTwo", "linesAfterSecond"} ->
                        setLineLeadingSpace(h, c.a, rowPlusLineIdx - h[c.a].row, remainingSpaces)
                   [] c.s = "trailingSpaceLines" ->
                        LET c2 == closestAnnot(h, rowPlusLineIdx, rightAnnots, 0)
                            leadingSpaces2 == h[c2.a].pipeColIdx + colPosShift(c2.s)
                                              - h[a].pipeColIdx - lineLength
                        IN  IF c2.s = "noAnnot" THEN [h |-> h, panic |-> FALSE]
                            ELSE IF c2.s = "above"
                            THEN setPipeLeadingSpace(h, c2.a, rowPlusLineIdx, leadingSpaces2)
                            ELSE setLineLeadingSpace(h, c2.a, rowPlusLineIdx - h[c2.a].row,
                                                     leadingSpaces2)
                   [] OTHER -> [h |-> h, panic |-> TRUE]
        IN  [h |-> w.h, panic |-> w.panic, fits |-> ~w.panic]

\* checkLineAndSetSpace that keeps two rows free below a right annotation.
checkLineAndSetSpace_twoTrailing(h, row, aLineIdx, a, rightAnnots) ==
  LET rowPlusLineIdx == row + aLineIdx
      c == closestAnnot(h, rowPlusLineIdx, rightAnnots, 2)
      lineLength == 3 + h[a].lines[aLineIdx + 1].length
      remainingSpaces == h[c.a].pipeColIdx + colPosShift(c.s) - h[a].pipeColIdx - lineLength
  IN  IF c.s = "noAnnot" THEN [h |-> h, panic |-> FALSE, fits |-> TRUE]
      ELSE IF remainingSpaces - space(c.s) < 0
      THEN [h |-> [h EXCEPT ![a].row = @ + 1,
                            ![a].pipeLeadingSpaces = Append(@, h[a].pipeColIdx)],
            panic |-> FALSE, fits |-> FALSE]
      ELSE
        LET w == CASE c.s = "above" ->
                        setPipeLeadingSpace(h, c.a, rowPlusLineIdx, remainingSpaces)
                   [] c.s \in {"lineOne", "lineTwo", "linesAfterSecond"} ->
                        setLineLeadingSpace(h, c.a, rowPlusLineIdx - h[c.a].row, remainingSpaces)
                   [] c.s = "trailingSpaceLines" ->
                        LET c2 == closestAnnot(h, rowPlusLineIdx, rightAnnots, 0)
                            leadingSpaces2 == h[c2.a].pipeColIdx + colPosShift(c2.s)
                                              - h[a].pipeColIdx - lineLength
                        IN  IF c2.s = "noAnnot" THEN [h |-> h, panic |-> FALSE]
                            ELSE IF c2.s = "above"
                            THEN setPipeLeadingSpace(h, c2.a, rowPlusLineIdx, leadingSpaces2)
                            ELSE setLineLeadingSpace(h, c2.a, rowPlusLineIdx - h[c2.a].row,
                                                     leadingSpaces2)
                   [] OTHER -> [h |-> h, panic |-> TRUE]
        IN  [h |-> w.h, panic |-> w.panic, fits |-> ~w.panic]

\* checkLineAndSetSpace that looks at the trailing space line of a right
\* annotation for the connector row only, not for the lines after it.
checkLineAndSetSpace_connectorLookahead(h, row, aLineIdx, a, rightAnnots) ==
  LET rowPlusLineIdx == row + aLineIdx
      c == closestAnnot(h, rowPlusLineIdx, rightAnnots, IF aLineIdx = 0 THEN 1 ELSE 0)
      lineLength == 3 + h[a].lines[aLineIdx + 1].length
      remainingSpaces == h[c.a].pipeColIdx + colPosShift(c.s) - h[a].pipeColIdx - lineLength
  IN  IF c.s = "noAnnot" THEN [h |-> h, panic |-> FALSE, fits |-> TRUE]
      ELSE IF remainingSpaces - space(c.s) < 0
      THEN [h |-> [h EXCEPT ![a].row = @ + 1,
                            ![a].pipeLeadingSpaces = Append(@, h[a].pipeColIdx)],
            panic |-> FALSE, fits |-> FALSE]
      ELSE
        LET w == CASE c.s = "above" ->
                        setPipeLeadingSpace(h, c.a, rowPlusLineIdx, remainingSpaces)
                   [] c.s \in {"lineOne", "lineTwo", "linesAfterSecond"} ->
                        setLineLeadingSpace(h, c.a, rowPlusLineIdx - h[c.a].row, remainingSpaces)
                   [] c.s = "trailingSpaceLines" ->
                        LET c2 == closestAnnot(h, rowPlusLineIdx, rightAnnots, 0)
                            leadingSpaces2 == h[c2.a].pipeColIdx + colPosShift(c2.s)
                                              - h[a].pipeColIdx - lineLength
                        IN  IF c2.s = "noAnnot" THEN [h |-> h, panic |-> FALSE]
                            ELSE IF c2.s = "above"
                            THEN setPipeLeadingSpace(h, c2.a, rowPlusLineIdx, leadingSpaces2)
                            ELSE setLineLeadingSpace(h, c2.a, rowPlusLineIdx - h[c2.a].row,
                                                     leadingSpaces2)
                   [] OTHER -> [h |-> h, panic |-> TRUE]
        IN  [h |-> w.h, panic |-> w.panic, fits |-> ~w.panic]

\* checkLineAndSetSpace: does line aLineIdx (0-based) of a fit on row
\* row + aLineIdx left of the closest right annotation; if so the space left
\* of that annotation is set, if not a moves one row down.
checkLineAndSetSpace(h, row, aLineIdx, a, rightAnnots) ==
  LET rowPlusLineIdx == row + aLineIdx
      c == closestAnnot(h, rowPlusLineIdx, rightAnnots, 1)
      lineLength == 3 + h[a].lines[aLineIdx + 1].length
      remainingSpaces == h[c.a].pipeColIdx + colPosShift(c.s) - h[a].pipeColIdx - lineLength
  IN  IF c.s = "noAnnot" THEN [h |-> h, panic |-> FALSE, fits |-> TRUE]
      ELSE IF remainingSpaces - space(c.s) < 0
      THEN [h |-> [h EXCEPT ![a].row = @ + 1,
                            ![a].pipeLeadingSpaces = Append(@, h[a].pipeColIdx)],
            panic |-> FALSE, fits |-> FALSE]
      ELSE
        LET w == CASE c.s = "above" ->
                        setPipeLeadingSpace(h, c.a, rowPlusLineIdx, remainingSpaces)
                   [] c.s \in {"lineOne", "lineTwo", "linesAfterSecond"} ->
                        setLineLeadingSpace(h, c.a, rowPlusLineIdx - h[c.a].row, remainingSpaces)
                   [] c.s = "trailingSpaceLines" ->
                        LET c2 == closestAnnot(h, rowPlusLineIdx, rightAnnots, 0)
                            leadingSpaces2 == h[c2.a].pipeColIdx + colPosShift(c2.s)
                                              - h[a].pipeColIdx - lineLength
                        IN  IF c2.s = "noAnnot" THEN [h |-> h, panic |-> FALSE]
                            ELSE IF c2.s = "above"
                            THEN setPipeLeadingSpace(h, c2.a, rowPlusLineIdx, leadingSpaces2)
                            ELSE setLineLeadingSpace(h, c2.a, rowPlusLineIdx - h[c2.a].row,
                                                     leadingSpaces2)
                   [] OTHER -> [h |-> h, panic |-> TRUE]
        IN  [h |-> w.h, panic |-> w.panic, fits |-> ~w.panic]

RECURSIVE checkLinesFrom(_, _, _, _, _)
\* The loop of checkLinesAndSetSpaces from line aLineIdx (0-based) on.
checkLinesFrom(h, row, aLineIdx, a, rightAnnots) ==
  IF aLineIdx >= Len(h[a].lines) THEN [h |-> h, panic |-> FALSE, fits |-> TRUE]
  ELSE LET r == checkLineAndSetSpace(h, row, aLineIdx, a, rightAnnots)
       IN  IF r.panic \/ ~r.fits THEN r
           ELSE checkLinesFrom(r.h, row, aLineIdx + 1, a, rightAnnots)

\* checkLinesAndSetSpaces: all lines of a fit with a on the row.
checkLinesAndSetSpaces(h, row, a, rightAnnots) == checkLinesFrom(h, row, 0, a, rightAnnots)

\* One pass of the loop of setRow for candidate row `row`.
setRowPass(h, row, a, rightAnnots) ==
  LET rowBefore == row - 1
      sp == IF rowBefore # -1 THEN setSpace(h, rowBefore, a, rightAnnots)
            ELSE [h |-> h, panic |-> FALSE]
  IN  IF sp.panic THEN [h |-> sp.h, panic |-> TRUE, fits |-> FALSE]
      ELSE checkLinesAndSetSpaces(sp.h, row, a, rightAnnots)

\* ---------------------------------------------------------- Write: render

\* The glyphs of the output, one per cell: "^" the arrow, "|" the pipe,
\* "L" "-" the connector, "T" "J" "F" the corners of a range.
RECURSIVE DisplayWidth(_)
\* The cells a piece of output takes: the column at which the next glyph starts.
DisplayWidth(text) ==
  IF text = <<>> THEN 0 ELSE CharWidth(Head(text)) + DisplayWidth(Tail(text))

RECURSIVE arrowOrRangeFrom(_, _, _, _, _)
\* The loop of arrowOrRangeString from position k on; text is the content of
\* the builder, widthWritten the local of that name.
arrowOrRangeFrom(h, annots, k, widthWritten, text) ==
  IF k > Len(annots) THEN [text |-> text, panic |-> FALSE]
  ELSE
    LET a == h[annots[k]]
    IN  IF a.ColEnd = 0
        THEN IF a.pipeColIdx - widthWritten < 0 THEN [text |-> text, panic |-> TRUE]
             ELSE arrowOrRangeFrom(h, annots, k + 1, a.pipeColIdx + 1,
                    text \o Repeat(" ", a.pipeColIdx - widthWritten) \o <<"^">>)
        ELSE IF \/ a.Col - widthWritten < 0
                \/ a.Col # a.pipeColIdx /\ a.pipeColIdx - a.Col - 1 < 0
                \/ a.ColEnd - a.pipeColIdx - 1 < 0
        THEN [text |-> text, panic |-> TRUE]
        ELSE arrowOrRangeFrom(h, annots, k + 1, a.ColEnd + 1,
               text \o Repeat(" ", a.Col - widthWritten)
                    \o (IF a.Col = a.pipeColIdx THEN <<"F">>
                        ELSE <<"L">> \o Repeat("-", a.pipeColIdx - a.Col - 1) \o <<"T">>)
                    \o Repeat("-", a.ColEnd - a.pipeColIdx - 1) \o <<"J">>)

\* arrowOrRangeString: the header row.
arrowOrRangeString(h, annots) == arrowOrRangeFrom(h, annots, 1, 0, <<>>)

RECURSIVE rowCountFrom_labelLines(_, _, _)
\* rowCount that counts the lines the caller gave, none for an annotation
\* without lines.
rowCountFrom_labelLines(h, annots, k) ==
  IF k > Len(annots) THEN 0
  ELSE Max(h[annots[k]].row + Len(h[annots[k]].Lines),
           rowCountFrom_labelLines(h, annots, k + 1))

\* write: rowCount, the number of body rows.
RECURSIVE rowCountFrom(_, _, _)
rowCountFrom(h, annots, k) ==
  IF k > Len(annots) THEN 0
  ELSE Max(h[annots[k]].row + Len(h[annots[k]].lines), rowCountFrom(h, annots, k + 1))

RECURSIVE bodyRowFrom(_, _, _, _, _)
\* The inner loop of write for one body row, from position k on. acc.text is
\* the content of the builder; acc.segs records, for every annotation that
\* printed on the row, the leading spaces used, the column its content starts
\* at and the column after its content.
bodyRowFrom(h, annots, row, k, acc) ==
  IF k > Len(annots) \/ acc.panic THEN acc
  ELSE
    LET id == annots[k]
        a  == h[id]
        at == DisplayWidth(acc.text)
        emit(lead, content, what) ==
          IF lead < 0 THEN [acc EXCEPT !.panic = TRUE]
          ELSE [text  |-> acc.text \o Repeat(" ", lead) \o content,
                panic |-> FALSE,
                segs  |-> Append(acc.segs,
                            [a |-> id, what |-> what, lead |-> lead, col |-> at + lead,
                             end |-> at + lead + DisplayWidth(content)])]
        next ==
          IF row < a.row
          THEN IF row < Len(a.pipeLeadingSpaces)
               THEN emit(a.pipeLeadingSpaces[row + 1], <<"|">>, "pipe")
               ELSE [acc EXCEPT !.panic = TRUE]
          ELSE IF row = a.row
          THEN IF Len(a.lines) > 0
               THEN emit(a.lines[1].leadingSpaces,
                         <<"L", "-", " ">> \o (IF Len(a.Lines) # 0 THEN a.Lines[1] ELSE <<>>),
                         "connector")
               ELSE [acc EXCEPT !.panic = TRUE]
          ELSE IF row < a.row + Len(a.lines)
          THEN IF row - a.row < Len(a.Lines)
               THEN emit(a.lines[row - a.row + 1].leadingSpaces, a.Lines[row - a.row + 1], "line")
               ELSE [acc EXCEPT !.panic = TRUE]
          ELSE acc
    IN  bodyRowFrom(h, annots, row, k + 1, next)

\* One body row of write.
bodyRow(h, annots, row) ==
  bodyRowFrom(h, annots, row, 1, [text |-> <<>>, panic |-> FALSE, segs |-> <<>>])

\* ------------------------------------------------ Write as one computation

RECURSIVE setRow(_, _, _, _)
\* setRow: the candidate rows from `row` on, until a fits (cut off at RowCap).
setRow(h, row, a, rightAnnots) ==
  LET r == setRowPass(h, row, a, rightAnnots)
  IN  IF r.panic \/ r.fits \/ row + 1 >= RowCap THEN r
      ELSE setRow(r.h, row + 1, a, rightAnnots)

RECURSIVE placeFrom(_, _, _)
\* Write's loop over the annotations to place, from aIdx (0-based) down to 0.
placeFrom(h, as, aIdx) ==
  IF aIdx < 0 THEN [h |-> h, panic |-> FALSE, fits |-> TRUE]
  ELSE LET r == setRow(h, 0, as[aIdx + 1], SubSeq(as, aIdx + 2, Len(as)))
       IN  IF r.panic \/ ~r.fits THEN r ELSE placeFrom(r.h, as, aIdx - 1)

RECURSIVE writeRowsFrom(_, _, _, _, _)
\* The row loop of write with a writer that accepts every row.
writeRowsFrom(h, as, r, rc, out) ==
  IF r >= rc THEN [ret |-> NoError, sink |-> out]
  ELSE LET b == bodyRow(h, as, r)
       IN  IF b.panic THEN [ret |-> Panic, sink |-> out]
           ELSE writeRowsFrom(h, as, r + 1, rc, Append(out, b.text))

\* write with a writer that accepts every row.
write(h, as) ==
  LET head == arrowOrRangeString(h, as)
  IN  IF head.panic THEN [ret |-> Panic, sink |-> <<>>]
      ELSE writeRowsFrom(h, as, 0, rowCountFrom(h, as, 1), <<head.text>>)

\* Write(w, annots...) with a writer that accepts every row, as String uses it:
\* what it returns and what the writer holds afterwards.
Write(h, as) ==
  LET compacted == CompactFunc(h, as)
      sorted == SortFunc(h, compacted)
      v == validate(h, sorted, 1)
      p == placeFrom(v.h, sorted, Len(sorted) - 2)
  IN  IF Len(compacted) = 0 THEN [ret |-> NoError, sink |-> <<>>]
      ELSE IF v.err.kind # "nil" THEN [ret |-> v.err, sink |-> <<>>]
      ELSE IF p.panic THEN [ret |-> Panic, sink |-> <<>>]
      ELSE IF ~p.fits THEN [ret |-> Running, sink |-> <<>>]
      ELSE write(p.h, sorted)

\* ----------------------------------------------------------- state machine

VARIABLES
  env,        \* the caller: which inputs it builds, its writer, its number of calls
  heap,       \* the caller's annotation objects, by object id
  calls,      \* the number of Write calls started
  args,       \* the arguments of the current call: object ids
  annots,     \* Write's slice annots after CompactFunc and SortFunc
  pc,         \* where the current call is: idle, validate, place, header, body
  aIdxDecr,   \* Write's loop variable over the annotations to place (0-based)
  row,        \* the candidate row of setRow, then the row of write's loop
  rowCount,   \* write's rowCount
  sink,       \* the rows the writer of the current call has accepted
  segs,       \* for every body row handed to the writer, the segments printed
  ret,        \* what the last call returned
  prev        \* the arguments, the return value and the output of the call before

vars == <<env, heap, calls, args, annots, pc, aIdxDecr, row, rowCount, sink, segs, ret, prev>>

NoCall == [args |-> <<>>, ret |-> [kind |-> "none"], sink |-> <<>>]

\* The label lines a caller may give.
LabelStrings == SeqsUpTo(Chars, MaxChars)

RECURSIVE TotalLines(_)
TotalLines(pool) ==
  IF pool = <<>> THEN 0 ELSE Len(Head(pool).Lines) + TotalLines(Tail(pool))

\* The column after which the next annotation of a valid input may start.
LastEnd(pool) ==
  IF pool = <<>> THEN -1
  ELSE IF pool[Len(pool)].Col >= pool[Len(pool)].ColEnd THEN pool[Len(pool)].Col
  ELSE pool[Len(pool)].ColEnd

\* A caller of String with valid input and no ranges: it lists the
\* annotations by ascending Col, with distinct columns; strings.Builder never
\* fails.
LayoutCaller ==
  [valid |-> TRUE, maxCol |-> MaxCol, maxSpan |-> 0, maxLines |-> MaxLines,
   totalLines |-> MaxTotalLines, writerFails |-> FALSE, maxCalls |-> 1]

\* A caller of String with valid input that has ranges, with Col < ColEnd,
\* that end before the next annotation starts.
RangeCaller ==
  [valid |-> TRUE, maxCol |-> MaxCol, maxSpan |-> MaxSpan, maxLines |-> MaxRangeLines,
   totalLines |-> MaxRangeLines, writerFails |-> FALSE, maxCalls |-> 1]

InitWith(caller) ==
  /\ env = caller
  /\ heap = <<>>
  /\ calls = 0
  /\ args = <<>>
  /\ annots = <<>>
  /\ pc = "idle"
  /\ aIdxDecr = 0
  /\ row = 0
  /\ rowCount = 0
  /\ sink = <<>>
  /\ segs = <<>>
  /\ ret = [kind |-> "none"]
  /\ prev = NoCall

\* A caller of String that builds any annotations, in any order: columns may
\* repeat, ColEnd may be any value.
AnyCaller ==
  [valid |-> FALSE, maxCol |-> MaxValCol, maxSpan |-> MaxSpan, maxLines |-> 1,
   totalLines |-> MaxValLines, writerFails |-> FALSE, maxCalls |-> 1]

\* A caller of Write with valid input and a writer that may fail, that
\* renders its annotations more than once.
ReuseCaller ==
  [valid |-> TRUE, maxCol |-> MaxReuseCol, maxSpan |-> MaxSpan, maxLines |-> MaxReuseLines,
   totalLines |-> MaxReuseLines, writerFails |-> TRUE, maxCalls |-> MaxCalls]

\* A caller of String with valid input of annotations that stand close
\* together and have many lines.
TallCaller ==
  [valid |-> TRUE, maxCol |-> MaxTallCol, maxSpan |-> 0, maxLines |-> MaxTallLines,
   totalLines |-> MaxTallTotal, writerFails |-> FALSE, maxCalls |-> 1]

Init == InitWith(LayoutCaller) \/ InitWith(RangeCaller)

InitTall == InitWith(TallCaller)

InitAny == InitWith(AnyCaller)

InitReuse == InitWith(ReuseCaller)

unchangedCall == <<calls, args, annots, pc, aIdxDecr, row, rowCount, sink, segs, ret, prev>>

\* The caller builds one more annotation, &Annot{Col: col, ColEnd: colEnd}.
NewAnnotation ==
  /\ pc = "idle"
  /\ calls = 0
  /\ Len(heap) < MaxAnnots
  /\ \E col \in 0..env.maxCol :
       \E colEnd \in 0..(env.maxCol + env.maxSpan) :
         /\ env.valid => /\ col > LastEnd(heap)
                         /\ colEnd = 0 \/ (col < colEnd /\ colEnd <= col + env.maxSpan)
         /\ heap' = Append(heap, NewAnnot(col, colEnd, <<>>))
  /\ UNCHANGED <<env, unchangedCall>>

\* (a *Annot) AppendLines, with one line.
AppendLines ==
  /\ pc = "idle"
  /\ calls = 0
  /\ TotalLines(heap) < env.totalLines
  /\ \E id \in 1..Len(heap) :
       /\ Len(heap[id].Lines) < env.maxLines
       /\ \E l \in LabelStrings :
            heap' = [heap EXCEPT ![id].Lines = Append(@, l)]
  /\ UNCHANGED <<env, unchangedCall>>

\* The argument lists of a call: the first call passes all objects in the order
\* the caller built them, a later call all or all but one of them.
CallArgs ==
  LET all == [i \in 1..Len(heap) |-> i]
      without(k) == [i \in 1..(Len(heap) - 1) |-> IF i < k THEN i ELSE i + 1]
  IN  IF calls = 0 THEN {all}
      ELSE {all} \cup {without(k) : k \in 1..Len(heap)}

\* Write is called: CompactFunc, the check for no annotations, SortFunc.
Call ==
  /\ pc = "idle"
  /\ calls < env.maxCalls
  /\ \E as \in CallArgs :
       LET compacted == CompactFunc(heap, as)
       IN  /\ args' = as
           /\ IF Len(compacted) = 0
              THEN /\ annots' = compacted
                   /\ pc' = "idle"
                   /\ ret' = NoError
              ELSE /\ annots' = SortFunc(heap, compacted)
                   /\ pc' = "validate"
                   /\ ret' = Running
  /\ calls' = calls + 1
  /\ prev' = IF calls = 0 THEN NoCall ELSE [args |-> args, ret |-> ret, sink |-> sink]
  /\ sink' = <<>>
  /\ segs' = <<>>
  /\ aIdxDecr' = 0
  /\ row' = 0
  /\ rowCount' = 0
  /\ UNCHANGED <<env, heap>>

\* Validate that hands the header row to the writer before it validates.
Validate_headerFirst ==
  /\ pc = "validate"
  /\ LET v == validate(heap, annots, 1)
     IN  /\ heap' = v.h
         /\ IF v.err.kind # "nil"
            THEN /\ ret' = v.err
                 /\ pc' = "idle"
                 /\ aIdxDecr' = aIdxDecr
            ELSE /\ ret' = ret
                 /\ aIdxDecr' = Len(annots) - 2
                 /\ pc' = IF Len(annots) - 2 >= 0 THEN "place" ELSE "header"
  /\ sink' = Append(sink, arrowOrRangeString([id \in DOMAIN heap |-> [heap[id] EXCEPT !.pipeColIdx = heap[id].Col]], annots).text)
  /\ UNCHANGED <<env, calls, args, annots, row, rowCount, segs, prev>>

\* The validation loop of Write; an error returns from Write.
Validate ==
  /\ pc = "validate"
  /\ LET v == validate(heap, annots, 1)
     IN  /\ heap' = v.h
         /\ IF v.err.kind # "nil"
            THEN /\ ret' = v.err
                 /\ pc' = "idle"
                 /\ aIdxDecr' = aIdxDecr
            ELSE /\ ret' = ret
                 /\ aIdxDecr' = Len(annots) - 2
                 /\ pc' = IF Len(annots) - 2 >= 0 THEN "place" ELSE "header"
  /\ UNCHANGED <<env, calls, args, annots, row, rowCount, sink, segs, prev>>

\* One pass of the loop of setRow for annots[aIdxDecr]; when the annotation
\* fits, Write's loop goes on with the annotation to the left.
SetRow ==
  /\ pc = "place"
  /\ row < RowCap
  /\ LET a == annots[aIdxDecr + 1]
         rightAnnots == SubSeq(annots, aIdxDecr + 2, Len(annots))
         r == setRowPass(heap, row, a, rightAnnots)
     IN  /\ heap' = r.h
         /\ IF r.panic
            THEN /\ ret' = Panic
                 /\ pc' = "idle"
                 /\ UNCHANGED <<aIdxDecr, row>>
            ELSE IF r.fits
            THEN /\ ret' = ret
                 /\ aIdxDecr' = aIdxDecr - 1
                 /\ row' = 0
                 /\ pc' = IF aIdxDecr - 1 >= 0 THEN "place" ELSE "header"
            ELSE /\ ret' = ret
                 /\ row' = row + 1
                 /\ UNCHANGED <<aIdxDecr, pc>>
  /\ UNCHANGED <<env, calls, args, annots, rowCount, sink, segs, prev>>

\* write up to the first Fprint: rowCount and the header row. The writer
\* accepts the row or fails.
WriteHeader ==
  /\ pc = "header"
  /\ LET head == arrowOrRangeString(heap, annots)
         rc == rowCountFrom(heap, annots, 1)
     IN  /\ rowCount' = rc
         /\ IF head.panic
            THEN /\ ret' = Panic
                 /\ pc' = "idle"
                 /\ sink' = sink
            ELSE \E ok \in {TRUE} \cup {~env.writerFails} :
                   IF ok
                   THEN /\ sink' = Append(sink, head.text)
                        /\ ret' = IF rc > 0 THEN ret ELSE NoError
                        /\ pc' = IF rc > 0 THEN "body" ELSE "idle"
                   ELSE /\ sink' = sink
                        /\ ret' = SinkError
                        /\ pc' = "idle"
  /\ row' = 0
  /\ UNCHANGED <<env, heap, calls, args, annots, aIdxDecr, segs, prev>>

\* WriteRow that goes on with the next row when the writer fails.
WriteRow_continues ==
  /\ pc = "body"
  /\ LET b == bodyRow(heap, annots, row)
     IN  IF b.panic
         THEN /\ ret' = Panic
              /\ pc' = "idle"
              /\ UNCHANGED <<sink, segs, row>>
         ELSE /\ segs' = Append(segs, b.segs)
              /\ \E ok \in {TRUE} \cup {~env.writerFails} :
                   /\ sink' = IF ok THEN Append(sink, b.text) ELSE sink
                   /\ row' = row + 1
                   /\ ret' = IF row + 1 < rowCount THEN ret
                             ELSE IF ok THEN NoError ELSE SinkError
                   /\ pc' = IF row + 1 < rowCount THEN "body" ELSE "idle"
  /\ UNCHANGED <<env, heap, calls, args, annots, aIdxDecr, rowCount, prev>>

\* One pass of the row loop of write: the row is built and handed to the
\* writer, which accepts it or fails.
WriteRow ==
  /\ pc = "body"
  /\ LET b == bodyRow(heap, annots, row)
     IN  IF b.panic
         THEN /\ ret' = Panic
              /\ pc' = "idle"
              /\ UNCHANGED <<sink, segs, row>>
         ELSE /\ segs' = Append(segs, b.segs)
              /\ \E ok \in {TRUE} \cup {~env.writerFails} :
                   IF ok
                   THEN /\ sink' = Append(sink, b.text)
                        /\ row' = row + 1
                        /\ ret' = IF row + 1 < rowCount THEN ret ELSE NoError
                        /\ pc' = IF row + 1 < rowCount THEN "body" ELSE "idle"
                   ELSE /\ sink' = sink
                        /\ row' = row
                        /\ ret' = SinkError
                        /\ pc' = "idle"
  /\ UNCHANGED <<env, heap, calls, args, annots, aIdxDecr, rowCount, prev>>

Next == NewAnnotation \/ AppendLines \/ Call \/ Validate \/ SetRow \/ WriteHeader \/ WriteRow

\* Valid inputs, rendered once with String.
Spec == Init /\ [][Next]_vars

\* Any inputs, rendered once with String.
SpecAny == InitAny /\ [][Next]_vars

\* Valid inputs, rendered up to MaxCalls times with a writer that may fail.
SpecReuse == InitReuse /\ [][Next]_vars

\* Valid inputs of close, tall annotations, rendered once with String.
SpecTall == InitTall /\ [][Next]_vars

\* ------------------------------------------------------------------ claims

\* A call has returned.
Returned == pc = "idle" /\ calls > 0

\* The call rendered fresh annotations: it is the first on these objects.
FreshCall == calls = 1

RECURSIVE CellAt(_, _)
\* The glyph that starts at display column col of a row of output ("none"
\* when no glyph starts there).
CellAt(text, col) ==
  IF text = <<>> \/ col < 0 THEN "none"
  ELSE IF col = 0 THEN Head(text)
  ELSE CellAt(Tail(text), col - CharWidth(Head(text)))

\* The column at which a segment is expected: the pipe and the connector at
\* the anchor column, a continuation line three cells to its right.
ExpectedCol(seg) ==
  IF seg.what = "line" THEN heap[seg.a].pipeColIdx + 3 ELSE heap[seg.a].pipeColIdx

\* The glyph a segment starts with.
FirstGlyph(seg, r) ==
  CASE seg.what = "pipe" -> "|"
    [] seg.what = "connector" -> "L"
    [] OTHER -> LET l == heap[seg.a].Lines[r - 1 - heap[seg.a].row + 1]
                IN  IF l = <<>> THEN "any" ELSE Head(l)

\* The annotations that print on body row r (0-based).
OnRow(r) == {k \in 1..Len(annots) : r < heap[annots[k]].row + Len(heap[annots[k]].lines)}

\* C1 (no collision): rendering fresh annotations of a valid input never
\* panics, and on every body row handed to the writer every annotation that
\* has content on the row prints it at its expected column (pipe and connector
\* at pipeColIdx, continuation lines at pipeColIdx + 3), with leading spaces
\* that are >= 0 and count from the end of the content printed before it on
\* that row, so that no two contents overlap.
NoCollision ==
  FreshCall =>
    /\ ret.kind # "panic"
    /\ \A r \in 1..Len(segs) :
         /\ Len(segs[r]) = Cardinality(OnRow(r - 1))
         /\ \A k \in 1..Len(segs[r]) :
              LET seg == segs[r][k]
                  before == IF k = 1 THEN 0 ELSE segs[r][k - 1].end
              IN  /\ seg.lead >= 0
                  /\ seg.col = before + seg.lead
                  /\ seg.col = ExpectedCol(seg)
                  /\ k > 1 => heap[segs[r][k - 1].a].Col < heap[seg.a].Col
                  /\ r + 1 <= Len(sink) =>
                       FirstGlyph(seg, r) \in {"any", CellAt(sink[r + 1], seg.col)}

\* A finished render in which three annotations print on one row, one of them
\* a pipe, and a continuation line prints right of another annotation's content.
NoCollisionWitness ==
  /\ Returned /\ FreshCall /\ ret.kind = "nil"
  /\ \E r \in 1..Len(segs) :
       /\ Len(segs[r]) = 3
       /\ \E k \in 1..3 : segs[r][k].what = "pipe"
  /\ \E r \in 1..Len(segs) : \E k \in 2..Len(segs[r]) :
       segs[r][k].what = "line" /\ segs[r][k].lead < 3

\* The position (1-based) of the first argument of the call with the column
\* of object id.
FirstWithCol(col) == CHOOSE j \in 1..Len(args) :
  /\ heap[args[j]].Col = col
  /\ \A i \in 1..(j - 1) : heap[args[i]].Col # col

\* C2 (duplicate-column collapse): after CompactFunc and SortFunc no two
\* retained annotations share a column, and the retained annotation of a
\* column is the first one the caller supplied with that column, wherever
\* the duplicates sit in the argument list.
DuplicateCollapse ==
  (calls = 1 /\ pc = "validate") =>
    /\ \A i, j \in 1..Len(annots) : i # j => heap[annots[i]].Col # heap[annots[j]].Col
    /\ \A j \in 1..Len(args) :
         args[j] \in Range(annots) <=> j = FirstWithCol(heap[args[j]].Col)

\* The second call had the arguments of the first, the first rendered all
\* its rows, and the writer of the second accepted all it was given.
RenderedTwice ==
  /\ Returned /\ calls = 2
  /\ args = prev.args
  /\ prev.ret.kind = "nil"
  /\ ret.kind # "sinkError"

\* C3 (idempotence): a second render of the same annotations, after a first
\* call that completed, returns what the first returned and writes the same
\* output.
Idempotence ==
  RenderedTwice => (ret = prev.ret /\ sink = prev.sink)

\* The annotation objects as the caller built them, before any call.
FreshHeap == [id \in DOMAIN heap |-> NewAnnot(heap[id].Col, heap[id].ColEnd, heap[id].Lines)]

\* All orderings of an argument list.
Orderings(as) ==
  {p \in [1..Len(as) -> Range(as)] : \A i, j \in 1..Len(as) : i # j => p[i] # p[j]}

DistinctColumns(as) ==
  \A i, j \in 1..Len(as) : i # j => heap[as[i]].Col # heap[as[j]].Col

\* C4 (determinism under permutation): for fresh annotations with pairwise
\* distinct columns, Write on any ordering of the argument list returns the
\* same kind of result and writes the same output as the call made.
PermutationDeterminism ==
  (Returned /\ FreshCall /\ DistinctColumns(args)) =>
    \A p \in Orderings(args) :
      LET w == Write(FreshHeap, p)
      IN  w.ret.kind = ret.kind /\ w.sink = sink

\* A finished render of three annotations that the caller did not pass in
\* column order and one of which was placed below row 0.
PermutationWitness ==
  /\ Returned /\ FreshCall /\ ret.kind = "nil"
  /\ Len(args) = 3 /\ DistinctColumns(args)
  /\ heap[args[1]].Col > heap[args[3]].Col
  /\ heap[args[2]].Col < heap[args[3]].Col
  /\ \E id \in Range(args) : heap[id].row > 0 /\ Len(heap[id].Lines) > 0

\* Annotation annots[k] has been given its row by setRow in the current call.
Placed(k) ==
  /\ calls > 0
  /\ k < Len(annots)
  /\ \/ pc \in {"header", "body"}
     \/ pc = "idle" /\ ret.kind \in {"nil", "sinkError"} /\ Len(sink) + Len(segs) > 0
     \/ pc = "place" /\ k > aIdxDecr + 1

\* The horizontal-fit check of line i (0-based) of annotation a with a on row
\* r, against the closest right annotation on row r + i: no annotation there,
\* or the space between a's line and that annotation's section is at least
\* the space the section needs. Only anchor columns, rows and line lengths
\* enter; leading spaces do not.
LineFits(h, r, i, a, rightAnnots) ==
  LET c == closestAnnot(h, r + i, rightAnnots, 1)
  IN  \/ c.s = "noAnnot"
      \/ h[c.a].pipeColIdx + colPosShift(c.s) - h[a].pipeColIdx - (3 + h[a].lines[i + 1].length)
           >= space(c.s)

AnnotFits(h, r, a, rightAnnots) ==
  \A i \in 0..(Len(h[a].lines) - 1) : LineFits(h, r, i, a, rightAnnots)

RightOf(k) == SubSeq(annots, k + 1, Len(annots))

\* C5 (row minimality): the row setRow gives a fresh annotation is the least
\* row r >= 0 on which all its lines pass the horizontal-fit check against
\* its right annotations: the check holds on that row and fails on every row
\* above it, whatever leading spaces the failed attempts wrote.
RowMinimality ==
  FreshCall =>
    \A k \in 1..(Len(annots) - 1) :
      Placed(k) =>
        /\ AnnotFits(heap, heap[annots[k]].row, annots[k], RightOf(k))
        /\ \A r \in 0..(heap[annots[k]].row - 1) : ~AnnotFits(heap, r, annots[k], RightOf(k))

\* A finished render in which an annotation with two lines was placed on row
\* 2 or lower, and its first line alone would have fitted on a row above.
RowMinimalityWitness ==
  /\ Returned /\ FreshCall /\ ret.kind = "nil"
  /\ \E k \in 1..(Len(annots) - 1) :
       /\ heap[annots[k]].row >= 2
       /\ Len(heap[annots[k]].lines) >= 2
       /\ \E r \in 0..(heap[annots[k]].row - 1) : LineFits(heap, r, 0, annots[k], RightOf(k))

\* The heap with the rows of annots[1..n-1] replaced by f and the rightmost
\* annotation on row 0.
WithRows(f) ==
  [id \in DOMAIN heap |->
     IF \E k \in 1..(Len(annots) - 1) : annots[k] = id
     THEN [heap[id] EXCEPT !.row = f[CHOOSE k \in 1..(Len(annots) - 1) : annots[k] = id]]
     ELSE IF id = annots[Len(annots)] THEN [heap[id] EXCEPT !.row = 0]
     ELSE heap[id]]

\* Every line of every annotation passes the horizontal-fit check under the
\* row assignment f.
ValidAssignment(f) ==
  LET h == WithRows(f)
  IN  \A k \in 1..(Len(annots) - 1) : AnnotFits(h, f[k], annots[k], RightOf(k))

\* C6 (minimum number of rows): the number of body rows of a finished render
\* of a valid input is the least possible: no row assignment with the
\* rightmost annotation on row 0 in which every line passes the
\* horizontal-fit check needs fewer rows.
MinimumRows ==
  (Returned /\ FreshCall /\ ret.kind = "nil" /\ Len(annots) > 0) =>
    /\ rowCount = Len(sink) - 1
    /\ ~ \E f \in [1..(Len(annots) - 1) -> 0..(rowCount - 2)] :
           /\ \A k \in 1..(Len(annots) - 1) :
                f[k] + Len(heap[annots[k]].lines) < rowCount
           /\ Len(heap[annots[Len(annots)]].lines) < rowCount
           /\ ValidAssignment(f)

\* A finished render of three annotations that needs more rows than the
\* longest annotation has lines, with two annotations below row 0, and for
\* which a row assignment other than the one made is valid too.
MinimumRowsWitness ==
  /\ Returned /\ FreshCall /\ ret.kind = "nil"
  /\ Len(annots) = 3
  /\ heap[annots[1]].row > 0 /\ heap[annots[2]].row > 0
  /\ \A k \in 1..3 : Len(heap[annots[k]].lines) < rowCount
  /\ \E f \in [1..2 -> 0..rowCount] :
       /\ \E k \in 1..2 : f[k] # heap[annots[k]].row
       /\ ValidAssignment(f)

\* The two validation errors.
ValidationErrors == {"ColExceedsColEndError", "OverlapError"}

\* annots[k] has an end column and its column is not below it.
ShapeInvalid(k) ==
  heap[annots[k]].ColEnd # 0 /\ heap[annots[k]].Col >= heap[annots[k]].ColEnd

\* The ranged annotation before annots[k] ends at or after the column of annots[k].
Overlaps(k) ==
  /\ k > 1
  /\ heap[annots[k - 1]].ColEnd # 0
  /\ heap[annots[k - 1]].ColEnd >= heap[annots[k]].Col

\* Every ranged annotation that went through validation has Col < ColEnd.
RangesShaped ==
  ret.kind \notin ValidationErrors =>
    \A k \in 1..Len(annots) :
      heap[annots[k]].ColEnd # 0 => heap[annots[k]].Col < heap[annots[k]].ColEnd

\* C7 as claimed, for arguments with distinct columns: any annotation passed
\* with an end column and column >= columnEnd makes Write fail with
\* ColExceedsColEndError; and every ranged annotation that survives validation
\* has column < columnEnd.
RangeValidityAsClaimed ==
  (Returned /\ FreshCall /\ DistinctColumns(args)) =>
    /\ (\E j \in 1..Len(args) :
          heap[args[j]].ColEnd # 0 /\ heap[args[j]].Col >= heap[args[j]].ColEnd)
         => ret.kind = "ColExceedsColEndError"
    /\ RangesShaped

\* C7 (range validity), amended: when annots[p] is the first annotation in
\* column order, among those kept by CompactFunc, that has an end column and
\* column >= columnEnd, Write fails: with ColExceedsColEndError for position p,
\* unless two annotations before it overlap, then with OverlapError; and
\* every ranged annotation that survives validation has column < columnEnd.
RangeValidity ==
  (Returned /\ FreshCall) =>
    /\ \A p \in 1..Len(annots) :
         (ShapeInvalid(p) /\ \A q \in 1..(p - 1) : ~ShapeInvalid(q)) =>
           IF \E q \in 1..(p - 1) : Overlaps(q)
           THEN ret.kind = "OverlapError"
           ELSE ret = newColExceedsColEndError(p, heap[annots[p]].Col, heap[annots[p]].ColEnd)
    /\ RangesShaped

\* Write failed with ColExceedsColEndError for the second of three
\* annotations, whose column is above its end column.
RangeValidityWitness ==
  /\ Returned /\ FreshCall
  /\ Len(annots) = 3
  /\ ret.kind = "ColExceedsColEndError" /\ ret.annotPos = 2 /\ ret.col > ret.colEnd
  /\ ~Overlaps(2)

\* Every ranged annotation that went through validation ends before the
\* column of every annotation to its right.
RangesApart ==
  ret.kind \notin ValidationErrors =>
    \A i, j \in 1..Len(annots) :
      (i < j /\ heap[annots[i]].ColEnd # 0) => heap[annots[i]].ColEnd < heap[annots[j]].Col

\* C8 as claimed, for arguments with distinct columns: Write fails with
\* OverlapError whenever, in column order, a
\* ranged annotation ends at or after the column of the next annotation; and
\* after a successful validation every ranged annotation ends before the
\* column of every annotation to its right.
RangeOverlapAsClaimed ==
  (Returned /\ FreshCall /\ DistinctColumns(args)) =>
    /\ (\E k \in 1..Len(annots) : Overlaps(k)) => ret.kind = "OverlapError"
    /\ RangesApart

\* C8 (range overlap), amended: when annots[q - 1], annots[q] is the first
\* pair in column order in which a ranged annotation ends at or after the
\* column of the next, Write fails: with OverlapError for that pair, unless
\* an annotation up to and including annots[q] has an invalid range shape,
\* then with ColExceedsColEndError; and after a successful validation every
\* ranged annotation ends before the column of every annotation to its right.
RangeOverlap ==
  (Returned /\ FreshCall) =>
    /\ \A q \in 1..Len(annots) :
         (Overlaps(q) /\ \A k \in 1..(q - 1) : ~Overlaps(k)) =>
           IF \E k \in 1..q : ShapeInvalid(k)
           THEN ret.kind = "ColExceedsColEndError"
           ELSE ret = newOverlapError(heap[annots[q - 1]].ColEnd, q - 1, heap[annots[q]].Col)
    /\ RangesApart

\* Write failed with OverlapError for the second and third annotation, the
\* range ending exactly on the column of the third, which is no range.
RangeOverlapWitness ==
  /\ Returned /\ FreshCall
  /\ Len(annots) = 3
  /\ ret.kind = "OverlapError" /\ ret.firstAnnotPos = 2
  /\ ret.colEnd = ret.secondAnnotCol
  /\ heap[annots[3]].ColEnd = 0

\* C9 as claimed, for arguments with distinct columns: whenever an annotation
\* has an invalid range shape and the
\* ranged annotation before it overlaps it, Write returns
\* ColExceedsColEndError for that annotation.
ErrorPrecedenceAsClaimed ==
  (Returned /\ FreshCall /\ DistinctColumns(args)) =>
    \A k \in 1..Len(annots) :
      (ShapeInvalid(k) /\ Overlaps(k)) =>
        ret = newColExceedsColEndError(k, heap[annots[k]].Col, heap[annots[k]].ColEnd)

\* C9 (error precedence), amended: when an annotation has an invalid range
\* shape and the ranged annotation before it overlaps it, and no annotation
\* before it in column order fails validation, Write returns
\* ColExceedsColEndError for that annotation and not OverlapError.
ErrorPrecedence ==
  (Returned /\ FreshCall) =>
    \A k \in 1..Len(annots) :
      (/\ ShapeInvalid(k) /\ Overlaps(k)
       /\ \A q \in 1..(k - 1) : ~ShapeInvalid(q) /\ ~Overlaps(q)) =>
        ret = newColExceedsColEndError(k, heap[annots[k]].Col, heap[annots[k]].ColEnd)

\* Write returned ColExceedsColEndError for an annotation that the ranged
\* annotation before it overlaps.
ErrorPrecedenceWitness ==
  /\ Returned /\ FreshCall
  /\ ret.kind = "ColExceedsColEndError"
  /\ ret.annotPos > 1
  /\ Overlaps(ret.annotPos)

\* C10 (no partial output on a validation error): a call that returns one of
\* the two validation errors has handed nothing to the writer, and nothing
\* is handed to the writer while the call validates or places rows.
NoPartialOutput ==
  /\ ret.kind \in ValidationErrors => sink = <<>>
  /\ pc \in {"validate", "place"} => sink = <<>>

\* Write returned a validation error for the third annotation, after it had
\* set up the two before it, and the writer holds nothing.
NoPartialOutputWitness ==
  /\ Returned /\ FreshCall
  /\ ret.kind \in ValidationErrors
  /\ Len(annots) = 3
  /\ heap[annots[1]].lines # <<>> /\ heap[annots[2]].lines # <<>>
  /\ sink = <<>>

\* The call is in write, or has returned from it.
InWrite ==
  /\ calls > 0
  /\ \/ pc = "body"
     \/ pc = "idle" /\ ret.kind \in {"nil", "sinkError"} /\ annots # <<>>

\* The rows write hands to a writer that accepts them all: the header, then
\* the body rows 0, 1, ...
FullOutput == write(heap, annots).sink

\* The rows the writer holds are the first rows of the full output, all of
\* them when the call returned nil, not all of them when the writer failed.
SinkHoldsPrefix ==
  InWrite =>
    /\ Len(sink) <= Len(FullOutput)
    /\ sink = SubSeq(FullOutput, 1, Len(sink))
    /\ ret.kind = "nil" => sink = FullOutput
    /\ ret.kind = "sinkError" => Len(sink) < Len(FullOutput)

\* Within one call the writer is given one row at a time; the step in which
\* the writer fails adds nothing and returns from Write with the writer's
\* error, and after it nothing is written until the next call.
SinkStep ==
  /\ calls' = calls =>
       \/ sink' = sink
       \/ Len(sink') = Len(sink) + 1 /\ SubSeq(sink', 1, Len(sink)) = sink
  /\ (ret'.kind = "sinkError" /\ ret.kind # "sinkError") =>
       (ret' = SinkError /\ sink' = sink /\ pc' = "idle")
  /\ (ret.kind = "sinkError" /\ calls' = calls) => (sink' = sink /\ ret' = ret)

\* C11 (sink failure stops the render): the rows reach the writer one at a
\* time and in order, header first; when the writer fails, Write returns the
\* writer's error and writes nothing more, so the writer holds a prefix of
\* the full output.
SinkFailureStops == [](SinkHoldsPrefix) /\ [][SinkStep]_vars

\* The writer accepted the header and a body row and failed on a later row
\* that was not the last.
SinkFailureWitness ==
  /\ Returned /\ ret.kind = "sinkError"
  /\ Len(sink) >= 2
  /\ Len(sink) + 1 < Len(FullOutput)

\* The call before was aborted by its writer, and this call, with the same
\* arguments and a writer that accepted all it was given, has returned.
RetriedAfterSinkFailure ==
  /\ Returned /\ calls = 2
  /\ prev.ret.kind = "sinkError"
  /\ args = prev.args
  /\ ret.kind # "sinkError"

\* C12 (sink failure does not corrupt internal state): a Write of the same
\* annotations, retried on a working writer after a Write that its writer
\* aborted, returns nil and writes what a first render of those annotations
\* writes when no write fails.
RetryAfterSinkFailure ==
  RetriedAfterSinkFailure =>
    /\ ret = NoError
    /\ sink = Write(FreshHeap, args).sink

\* C13 (rightmost on row 0): after every render call that reached write, also
\* one on annotations that an earlier call rendered in another set, the
\* annotation with the greatest column of the call is on row 0.
RightmostOnRowZero ==
  (InWrite /\ pc = "idle") => heap[annots[Len(annots)]].row = 0

\* The greatest element of a non-empty set of integers.
SetMax(S) == CHOOSE m \in S : \A x \in S : x <= m

\* A first render of at least one annotation has returned nil.
Rendered == Returned /\ FreshCall /\ ret.kind = "nil" /\ annots # <<>>

\* C14 as claimed: a successful render writes the header line and then
\* exactly max(row + number of label lines) body lines, counting no line for
\* an annotation without label lines.
RowCountAsClaimed ==
  Rendered =>
    Len(sink) = 1 + SetMax({heap[annots[k]].row + Len(heap[annots[k]].Lines) :
                              k \in 1..Len(annots)})

\* C14 (row count), amended: a successful render writes the header line and
\* then exactly max(row + max(1, number of label lines)) body lines and no
\* row after them: an annotation without label lines still has its connector
\* row.
RowCount ==
  Rendered =>
    /\ Len(sink) = 1 + SetMax({heap[annots[k]].row + Max(1, Len(heap[annots[k]].Lines)) :
                                 k \in 1..Len(annots)})
    /\ Len(segs) = Len(sink) - 1
    /\ segs[Len(segs)] # <<>>

\* A finished render whose last body row is the connector row of an
\* annotation without label lines, below the last label line of every other
\* annotation.
RowCountWitness ==
  /\ Rendered
  /\ \E k \in 1..Len(annots) :
       /\ heap[annots[k]].Lines = <<>>
       /\ heap[annots[k]].row >= 2
       /\ \A j \in 1..Len(annots) :
            j # k => /\ heap[annots[j]].Lines # <<>>
                     /\ heap[annots[j]].row + Len(heap[annots[j]].Lines) <= heap[annots[k]].row

\* The row after the trailing space line of the lowest annotation right of
\* annots[k]: 1 + max(N.row + len(N.lines)).
RowBound(k) ==
  1 + SetMax({heap[annots[j]].row + Len(heap[annots[j]].lines) : j \in (k + 1)..Len(annots)})

\* C15 (termination): while setRow looks for the row of a fresh annotation,
\* the candidate row is the row of the annotation, never above
\* 1 + max(N.row + len(N.lines)) over its right annotations N and never cut
\* off by the cap on candidate rows, so that the next pass of the loop can
\* always run; every annotation is placed on a row within that bound, after
\* which Write goes on to write.
SetRowTerminates ==
  FreshCall =>
    /\ pc = "place" =>
         /\ row <= RowBound(aIdxDecr + 1)
         /\ row < RowCap
         /\ heap[annots[aIdxDecr + 1]].row = row
         /\ ret = Running
    /\ \A k \in 1..(Len(annots) - 1) :
         Placed(k) => heap[annots[k]].row <= RowBound(k)

\* A finished render of three annotations in which the leftmost was turned
\* down on every row up to the trailing space line of the lowest annotation to
\* its right and sits on the row after it.
SetRowTerminatesWitness ==
  /\ Rendered
  /\ Len(annots) = 3
  /\ heap[annots[1]].row = RowBound(1)
  /\ heap[annots[1]].row >= 3

\* The minimum gap and the anchor shift of the classifications of an active
\* annotation, as the table of the row placement gives them.
TableGap(s) == IF s = "lineTwo" THEN 4 ELSE 2

TableShift(s) == IF s \in {"above", "lineOne"} THEN 0 ELSE 3

\* The width of line i (0-based) of annots[k] as it prints: the label line,
\* nothing for an annotation without label lines.
PrintedWidth(k, i) ==
  IF heap[annots[k]].Lines = <<>> THEN 0 ELSE StringWidth(heap[annots[k]].Lines[i + 1])

\* The free cells between line i of annots[k] and the content of annotation
\* n in classification s.
GapTo(k, i, n, s) ==
  heap[n].pipeColIdx + TableShift(s) - heap[annots[k]].pipeColIdx - (3 + PrintedWidth(k, i))

\* C16 (minimum gap in the finished layout): in a finished first render, for
\* every annotation and each of its lines, the nearest right annotation that
\* is active on the row of the line (above, lineOne, lineTwo or
\* linesAfterSecond there) is at least its minimum gap away (2, 2, 4, 2),
\* also when a nearer annotation has its trailing space line on that row.
MinimumGap ==
  Rendered =>
    \A k \in 1..(Len(annots) - 1) :
      \A i \in 0..(Len(heap[annots[k]].lines) - 1) :
        LET c == closestAnnot(heap, heap[annots[k]].row + i, RightOf(k), 0)
        IN  c.s # "noAnnot" =>
              /\ c.s \in {"above", "lineOne", "lineTwo", "linesAfterSecond"}
              /\ GapTo(k, i, c.a, c.s) >= TableGap(c.s)

\* A finished render in which a line of the leftmost annotation is on the
\* trailing space line of the annotation next to it while the third
\* annotation is active on that row, and in which a line of an annotation is
\* exactly four cells left of the second line of another.
MinimumGapWitness ==
  /\ Rendered
  /\ Len(annots) = 3
  /\ \E i \in 0..(Len(heap[annots[1]].lines) - 1) :
       LET r == heap[annots[1]].row + i
       IN  /\ closestAnnot(heap, r, RightOf(1), 1) = [a |-> annots[2], s |-> "trailingSpaceLines"]
           /\ closestAnnot(heap, r, RightOf(1), 0).a = annots[3]
  /\ \E k \in 1..2 : \E i \in 0..(Len(heap[annots[k]].lines) - 1) :
       LET c == closestAnnot(heap, heap[annots[k]].row + i, RightOf(k), 0)
       IN  c.s = "lineTwo" /\ GapTo(k, i, c.a, c.s) = 4

\* The classification of right annotation n on row r as the table is claimed
\* to read: the second line is the row after the first.
ClaimedClass(n, r) ==
  CASE r < heap[n].row -> "above"
    [] r = heap[n].row -> "lineOne"
    [] r = heap[n].row + 1 -> "lineTwo"
    [] heap[n].row + 2 <= r /\ r < heap[n].row + Len(heap[n].lines) -> "linesAfterSecond"
    [] OTHER -> "none"

\* The classification of right annotation n on row r with a lookahead of t
\* rows: the second line is the row after the first when the annotation has
\* a second line, and the t rows after the last line are trailing space lines.
TableClass(n, r, t) ==
  CASE r < heap[n].row -> "above"
    [] r = heap[n].row -> "lineOne"
    [] r = heap[n].row + 1 /\ r < heap[n].row + Len(heap[n].lines) -> "lineTwo"
    [] heap[n].row + 2 <= r /\ r < heap[n].row + Len(heap[n].lines) -> "linesAfterSecond"
    [] heap[n].row + Len(heap[n].lines) <= r /\ r < heap[n].row + Len(heap[n].lines) + t
         -> "trailingSpaceLines"
    [] OTHER -> "none"

\* First match wins: the first annotation of rightAnnots, in the order of the
\* slice, that Class gives a classification, with that classification;
\* "noAnnot" when there is none.
FirstMatch(Class(_), rightAnnots) ==
  LET matching == {j \in 1..Len(rightAnnots) : Class(rightAnnots[j]) # "none"}
  IN  IF matching = {} THEN [a |-> 0, s |-> "noAnnot"]
      ELSE LET j == CHOOSE m \in matching : \A x \in matching : m <= x
           IN  [a |-> rightAnnots[j], s |-> Class(rightAnnots[j])]

\* The rows setRow looks at in one pass for the annotation it places: the row
\* before the candidate row and the rows of the lines of the annotation.
PassRows ==
  {r \in (row - 1)..(row + Len(heap[annots[aIdxDecr + 1]].lines) - 1) : r >= 0}

\* C17 as claimed: while setRow places an annotation, the classification
\* closestAnnot gives without lookahead is the first match of the claimed
\* table over the right annotations in column order.
ClassificationAsClaimed ==
  (pc = "place" /\ FreshCall) =>
    \A r \in PassRows :
      LET Class(n) == ClaimedClass(n, r)
      IN  closestAnnot(heap, r, RightOf(aIdxDecr + 1), 0)
            = FirstMatch(Class, RightOf(aIdxDecr + 1))

\* C17 (neighbour classification), amended: the classification closestAnnot
\* gives is the first match over the right annotations in column order of:
\* above when r < N.row, lineOne when r = N.row, lineTwo when r = N.row + 1
\* and N has a second line, linesAfterSecond when
\* N.row + 2 <= r < N.row + len(N.lines), and, in a lookup with lookahead,
\* trailingSpaceLines on the row after N's last line; an annotation matching
\* none is skipped, and noAnnot results only when none matches.
Classification ==
  (pc = "place" /\ FreshCall) =>
    \A r \in PassRows : \A t \in {0, 1} :
      LET Class(n) == TableClass(n, r, t)
      IN  closestAnnot(heap, r, RightOf(aIdxDecr + 1), t)
            = FirstMatch(Class, RightOf(aIdxDecr + 1))

\* setRow is about to look at a row on which the nearest right annotation,
\* which has one line, is past its line and is skipped, and the annotation
\* beyond it is on its third or a later line.
ClassificationWitness ==
  /\ pc = "place" /\ FreshCall
  /\ aIdxDecr = 0 /\ Len(annots) = 3
  /\ \E r \in PassRows :
       /\ Len(heap[annots[2]].lines) = 1
       /\ r = heap[annots[2]].row + 1
       /\ closestAnnot(heap, r, RightOf(1), 0) = [a |-> annots[3], s |-> "linesAfterSecond"]

\* With annots[k] on candidate row r, the fit check reaches line i (0-based,
\* the lines before it fit) and turns it down on the trailing space line of
\* the nearest right annotation.
TurnedDownOnTrailing(k, r, i) ==
  /\ \A j \in 0..(i - 1) : LineFits(heap, r, j, annots[k], RightOf(k))
  /\ closestAnnot(heap, r + i, RightOf(k), 1).s = "trailingSpaceLines"
  /\ ~LineFits(heap, r, i, annots[k], RightOf(k))

\* C18 as claimed: the trailing space line of a right annotation counts for
\* the connector row only: setRow never turns a candidate row down because a
\* label line after the first is on a trailing space line.
TrailingForConnectorOnly ==
  (pc = "place" /\ FreshCall) =>
    \A i \in 1..(Len(heap[annots[aIdxDecr + 1]].lines) - 1) :
      ~TurnedDownOnTrailing(aIdxDecr + 1, row, i)

\* C18 (trailing blank row), amended: the trailing space line (the one row
\* after a right annotation's last line, minimum gap 1, anchor shift 3)
\* counts in the fit check of every line of the annotation being placed, the
\* connector row and the label lines after it: in a finished first render
\* every line that is on the trailing space line of its nearest right
\* annotation ends at least one cell left of that annotation's indented text
\* column.
TrailingForEveryLine ==
  Rendered =>
    \A k \in 1..(Len(annots) - 1) :
      \A i \in 0..(Len(heap[annots[k]].lines) - 1) :
        LET c == closestAnnot(heap, heap[annots[k]].row + i, RightOf(k), 1)
        IN  c.s = "trailingSpaceLines" =>
              heap[c.a].pipeColIdx + 3 - heap[annots[k]].pipeColIdx
                - (3 + PrintedWidth(k, i)) >= 1

\* A finished render in which an annotation sits one row below a row that
\* was turned down on its second line, which was too long for the trailing
\* space line of the right annotation.
TrailingForEveryLineWitness ==
  /\ Rendered
  /\ \E k \in 1..(Len(annots) - 1) :
       /\ heap[annots[k]].row >= 1
       /\ Len(heap[annots[k]].lines) >= 2
       /\ TurnedDownOnTrailing(k, heap[annots[k]].row - 1, 1)

\* C19 (no run-time failure): a call of Write on fresh annotations that pass
\* validation never panics, neither on an index out of range, nor on a
\* negative repeat count, nor in the branch that should never be reached, and
\* every annotation keeps len(pipeLeadingSpaces) = row.
NoRuntimeFailure ==
  FreshCall =>
    /\ ret.kind # "panic"
    /\ \A id \in 1..Len(heap) : Len(heap[id].pipeLeadingSpaces) = heap[id].row

====
